---------------------------- MODULE Spec2Model ----------------------------
(***************************************************************************)
(* configmap-collector (cm-gc): garbage collector for Helm checksum-named  *)
(* ConfigMaps of Argo Rollouts.                                            *)
(*                                                                         *)
(* The module holds four state machines over one set of variables:        *)
(*   SpecPlan / SpecPlanRepeated  the retention planner, planner.Plan,     *)
(*                     applied to inputs drawn from bounded sets, and      *)
(*                     SpecPlanTwice, the same called twice in a row;      *)
(*   SpecResolve       InUseResolver.Resolve on a listed namespace;        *)
(*   SpecConfig        config.Load followed by applyFlagOverrides;         *)
(*   Spec              one run of cm-gc against a cluster: the namespace   *)
(*                     goroutines of run(), runForNamespace and            *)
(*                     runForRollout; FairSpec, the same run under weak    *)
(*                     fairness with pairwise different namespaces; and    *)
(*                     SpecLiveCluster, the run on one namespace while     *)
(*                     ReplicaSets appear in the cluster.                  *)
(* Each specification leaves the variables of the others unchanged.        *)
(*                                                                         *)
(* Time is counted in whole days.  time.Duration is a signed 64-bit count  *)
(* of nanoseconds; the model keeps the two's-complement wraparound of      *)
(* keepDays * 24h and the saturation of Time.Sub, in a word of             *)
(* DurationBits bits holding days, so that both are inside the bounds.     *)
(***************************************************************************)
EXTENDS Integers, Sequences, FiniteSets, Bags, TLC

VARIABLES
    \* planner.Plan: its five parameters as the caller holds them, its result, the
    \* result of a second call with the same arguments, and the caller's position
    planCms, planInUse, planKeepLast, planKeepDays, planNow, planResult, planAgain,
    planPc,
    \* start-up: the environment, the command line, the parsed flags (value and
    \* Changed), the Config being built, and main's position
    env, args, flags, loaded, cfgPc,
    \* one run: the effective Config and the clock; the cluster (Rollout names,
    \* ReplicaSets and the names of the existing ConfigMaps, per namespace); the
    \* namespace goroutines; anyFailed, the WaitGroup counter, main's position, how
    \* many goroutines main has started, the exit code; and, as history, the bag of
    \* DeleteConfigMap calls made
    cfg, clock, rollouts, replicaSets, configMaps,
    gr, anyFailed, wg, mainPc, spawned, exitCode, deleteCalls,
    \* InUseResolver.Resolve: the ReplicaSets of the namespace as the API lists
    \* them, whether the list call fails, what Resolve returned, and the caller's
    \* position
    rsItems, rsListFails, resolved, resolvePc

planVars == <<planCms, planInUse, planKeepLast, planKeepDays, planNow, planResult,
              planAgain, planPc>>

configVars == <<env, args, flags, loaded, cfgPc>>

runVars == <<cfg, clock, rollouts, replicaSets, configMaps,
             gr, anyFailed, wg, mainPc, spawned, exitCode, deleteCalls>>

resolveVars == <<rsItems, rsListFails, resolved, resolvePc>>

vars == <<planVars, configVars, runVars, resolveVars>>

---------------------------------------------------------------------------
(* Bounds *)

\* longest candidate list handed to Plan
MaxCms == 2
\* most ReplicaSets in the namespace handed to the resolver
MaxRs == 3
\* creation timestamps and now range over days 0..MaxTime
MaxTime == 2
\* width of the scaled time.Duration word (64 in the program)
DurationBits == 3

---------------------------------------------------------------------------
(* Go built-ins *)

\* strings.Contains
Contains(s, substr) ==
    \E i \in 1..(Len(s) - Len(substr) + 1) : SubSeq(s, i, i + Len(substr) - 1) = substr

\* strings.HasPrefix
HasPrefix(s, prefix) ==
    Len(s) >= Len(prefix) /\ SubSeq(s, 1, Len(prefix)) = prefix

\* m[k] of a map[string]bool: false for a missing key
MapBool(m, k) == k \in DOMAIN m /\ m[k]

\* m[k] of a map[string]string: "" for a missing key (and for a nil map)
MapStr(m, k) == IF k \in DOMAIN m THEN m[k] ELSE ""

\* the maps with keys among keySet and values among valSet
Maps(keySet, valSet) == UNION {[d -> valSet] : d \in SUBSET keySet}

\* strings.TrimSpace, for the blank the inputs hold
RECURSIVE TrimLeft(_)
TrimLeft(s) ==
    IF Len(s) > 0 /\ SubSeq(s, 1, 1) = " " THEN TrimLeft(SubSeq(s, 2, Len(s))) ELSE s

RECURSIVE TrimRight(_)
TrimRight(s) ==
    IF Len(s) > 0 /\ SubSeq(s, Len(s), Len(s)) = " "
    THEN TrimRight(SubSeq(s, 1, Len(s) - 1))
    ELSE s

TrimSpace(s) == TrimRight(TrimLeft(s))

\* strings.Split(s, sep) for a one-character sep: always at least one part
RECURSIVE Split(_, _)
Split(s, sep) ==
    LET hits == {i \in 1..Len(s) : SubSeq(s, i, i) = sep}
    IN IF hits = {} THEN <<s>>
       ELSE LET i == CHOOSE h \in hits : \A k \in hits : h <= k
            IN <<SubSeq(s, 1, i - 1)>> \o Split(SubSeq(s, i + 1, Len(s)), sep)

\* strconv.ParseBool: the spellings it accepts
ParseBoolTrue == {"1", "t", "T", "TRUE", "true", "True"}
ParseBoolFalse == {"0", "f", "F", "FALSE", "false", "False"}

MinDuration == -(2 ^ (DurationBits - 1))
MaxDuration == (2 ^ (DurationBits - 1)) - 1

\* two's-complement wraparound of an integer into the Duration word
WrapDuration(n) == ((n - MinDuration) % (2 ^ DurationBits)) + MinDuration

\* Time.Sub: t - u, saturated at the ends of the Duration range
Sub(t, u) ==
    IF t - u > MaxDuration THEN MaxDuration
    ELSE IF t - u < MinDuration THEN MinDuration
    ELSE t - u

---------------------------------------------------------------------------
(* planner.Plan *)

AnnotationProtect == "gc.k8s.io/protect"
AnnotationSyncOptions == "argocd.argoproj.io/sync-options"

\* insertion of x into a slice already sorted newest first: x moves left while
\* cmp(x, left neighbour) < 0, that is while x is strictly newer
RECURSIVE InsertSorted(_, _)
InsertSorted(s, x) ==
    IF s = <<>> THEN <<x>>
    ELSE IF x.CreationTimestamp > s[Len(s)].CreationTimestamp
         THEN Append(InsertSorted(SubSeq(s, 1, Len(s) - 1), x), s[Len(s)])
         ELSE Append(s, x)

\* slices.SortFunc(sorted, b.CreationTimestamp.Compare(a.CreationTimestamp)) on a
\* copy of cms: for slices of at most 12 elements the library sorts by insertion
RECURSIVE SortFunc(_)
SortFunc(cms) ==
    IF cms = <<>> THEN <<>>
    ELSE InsertSorted(SortFunc(SubSeq(cms, 1, Len(cms) - 1)), cms[Len(cms)])

\* slip: the index compared as if it counted from 1
NotInKeepLastOffByOne(sorted, keepLast) ==
    {sorted[i].Name : i \in {j \in 1..Len(sorted) : j >= keepLast}}

\* the notInKeepLast map: the names at (0-based) index >= keepLast of sorted
NotInKeepLast(sorted, keepLast) ==
    {sorted[i].Name : i \in {j \in 1..Len(sorted) : j - 1 >= keepLast}}

\* keepDuration := time.Duration(keepDays) * 24 * time.Hour
KeepDuration(keepDays) == WrapDuration(keepDays)

\* slip: the keepLast window not consulted
SkipKeepLastNever(cm, notInKeepLast) == FALSE

\* if !notInKeepLast[cm.Name] { continue }
SkipKeepLast(cm, notInKeepLast) == cm.Name \notin notInKeepLast

\* slip: the condition negated
SkipInUseNegated(cm, inUse) == ~MapBool(inUse, cm.Name)

\* if inUse[cm.Name] { continue }
SkipInUse(cm, inUse) == MapBool(inUse, cm.Name)

\* slip: the value compared in another case
SkipProtectedOtherCase(cm) == MapStr(cm.Annotations, AnnotationProtect) = "True"

\* if cm.Annotations["gc.k8s.io/protect"] == "true" { continue }
SkipProtected(cm) == MapStr(cm.Annotations, AnnotationProtect) = "true"

\* slip: the whole value compared instead of searched
SkipPruneLastWholeValue(cm) ==
    MapStr(cm.Annotations, AnnotationSyncOptions) = "PruneLast=true"

\* if strings.Contains(cm.Annotations[sync-options], "PruneLast=true") { continue }
SkipPruneLast(cm) ==
    Contains(MapStr(cm.Annotations, AnnotationSyncOptions), "PruneLast=true")

\* slip: the operands of Sub exchanged
SkipTooNewSwapped(cm, keepDuration, now) == Sub(cm.CreationTimestamp, now) < keepDuration

\* slip: a candidate exactly keepDuration old counted as too new
SkipTooNewInclusive(cm, keepDuration, now) == Sub(now, cm.CreationTimestamp) <= keepDuration

\* age := now.Sub(cm.CreationTimestamp); if age < keepDuration { continue }
SkipTooNew(cm, keepDuration, now) == Sub(now, cm.CreationTimestamp) < keepDuration

\* the second loop of Plan over sorted[i..]: appends the names that pass every filter
RECURSIVE DeleteLoop(_, _, _, _, _, _)
DeleteLoop(sorted, i, notInKeepLast, inUse, keepDuration, now) ==
    IF i > Len(sorted) THEN <<>>
    ELSE LET cm == sorted[i]
             rest == DeleteLoop(sorted, i + 1, notInKeepLast, inUse, keepDuration, now)
         IN IF \/ SkipKeepLast(cm, notInKeepLast)
               \/ SkipInUse(cm, inUse)
               \/ SkipProtected(cm)
               \/ SkipPruneLast(cm)
               \/ SkipTooNew(cm, keepDuration, now)
            THEN rest
            ELSE <<cm.Name>> \o rest

\* slip: the names the in-use map holds as false are scheduled as well
PlanWithUnusedKeys(cms, inUse, keepLast, keepDays, now) ==
    LET sorted == SortFunc(cms)
        unused == {n \in DOMAIN inUse : ~inUse[n]}
    IN DeleteLoop(sorted, 1, NotInKeepLast(sorted, keepLast), inUse,
                  KeepDuration(keepDays), now)
       \o SelectSeq(<<"app-config-e6120fae", "app-config-b870a608",
                      "app-config-f3bca2cb", "app-config-d5eb6ebf">>,
                    LAMBDA n : n \in unused)

Plan(cms, inUse, keepLast, keepDays, now) ==
    LET sorted == SortFunc(cms)
    IN DeleteLoop(sorted, 1, NotInKeepLast(sorted, keepLast), inUse,
                  KeepDuration(keepDays), now)

\* slip: cms itself sorted, instead of a copy
CallerSliceSortedInPlace(cms) == SortFunc(cms)

\* sorted := make([]ConfigMapCandidate, len(cms)); copy(sorted, cms): the caller's
\* slice after the call; the elements' Annotations maps are only indexed
CallerSlice(cms) == cms

\* slip: the names scheduled for deletion recorded in the caller's map
InUseMarkingDeleted(inUse, toDelete) ==
    [n \in DOMAIN inUse \cup {toDelete[k] : k \in 1..Len(toDelete)} |->
        IF \E k \in 1..Len(toDelete) : toDelete[k] = n THEN TRUE ELSE inUse[n]]

\* inUse is only indexed: the caller's map after the call
InUseAfter(inUse, toDelete) == inUse

---------------------------------------------------------------------------
(* Inputs of Plan *)

CandidateNames ==
    <<"app-config-e6120fae", "app-config-b870a608",
      "app-config-f3bca2cb", "app-config-d5eb6ebf">>

NamePool == {CandidateNames[i] : i \in 1..MaxCms}

Times == 0..MaxTime

\* now: the last day, or the day before it (a candidate can be created after now)
NowValues == (MaxTime - 1)..MaxTime

\* no annotations; protected; handed to Argo CD's PruneLast; and both keys present
\* with values that exclude nothing
AnnotationChoices ==
    { <<>>,
      [k \in {AnnotationProtect} |-> "true"],
      [k \in {AnnotationSyncOptions} |-> "Prune=false,PruneLast=true"],
      [k \in {AnnotationProtect, AnnotationSyncOptions} |->
          IF k = AnnotationProtect THEN "false" ELSE "PruneLast=false"] }

ConfigMapCandidate ==
    [Name : NamePool, CreationTimestamp : Times, Annotations : AnnotationChoices]

CandidateLists == UNION {[1..n -> ConfigMapCandidate] : n \in 0..MaxCms}

DistinctNames(cms) ==
    \A i, j \in 1..Len(cms) : cms[i].Name = cms[j].Name => i = j

\* the lists a namespace listing can give: object names are unique, and the
\* i-th listed object is called CandidateNames[i]
ListedCandidateLists ==
    {cms \in CandidateLists : \A i \in 1..Len(cms) : cms[i].Name = CandidateNames[i]}

\* the listed candidates that carry no annotation or the protect annotation
PlainCandidateLists ==
    {cms \in ListedCandidateLists :
        \A i \in 1..Len(cms) : AnnotationSyncOptions \notin DOMAIN cms[i].Annotations}

\* no name, one name or every name mapped to true, and the map holding false for
\* every name
InUseMaps ==
    {inUse \in Maps(NamePool, {TRUE}) :
        Cardinality(DOMAIN inUse) <= 1 \/ DOMAIN inUse = NamePool}
    \cup {[n \in NamePool |-> FALSE]}

KeepLastValues == (-1)..MaxCms

\* up to the first keepDays whose keepDays * 24h wraps around
KeepDaysValues == 0..(MaxDuration + 1)

PlanInputs(lists) ==
    /\ planCms \in lists
    /\ planInUse \in InUseMaps
    /\ planKeepLast \in KeepLastValues
    /\ planKeepDays \in KeepDaysValues
    /\ planNow \in NowValues
    /\ planResult = <<>>
    /\ planAgain = <<>>
    /\ planPc = "call"

PlanCall ==
    /\ planPc = "call"
    /\ planResult' = Plan(planCms, planInUse, planKeepLast, planKeepDays, planNow)
    /\ planCms' = CallerSlice(planCms)
    /\ planInUse' = InUseAfter(planInUse, planResult')
    /\ planPc' = "returned"
    /\ UNCHANGED <<planKeepLast, planKeepDays, planNow, planAgain>>
    /\ UNCHANGED <<configVars, runVars, resolveVars>>

\* the caller calls Plan once more with what it holds
PlanCallAgain ==
    /\ planPc = "returned"
    /\ planAgain' = Plan(planCms, planInUse, planKeepLast, planKeepDays, planNow)
    /\ planCms' = CallerSlice(planCms)
    /\ planInUse' = InUseAfter(planInUse, planAgain')
    /\ planPc' = "returnedAgain"
    /\ UNCHANGED <<planKeepLast, planKeepDays, planNow, planResult>>
    /\ UNCHANGED <<configVars, runVars, resolveVars>>

PlanIdle ==
    /\ planCms = <<>> /\ planInUse = <<>> /\ planKeepLast = 0 /\ planKeepDays = 0
    /\ planNow = 0 /\ planResult = <<>> /\ planAgain = <<>> /\ planPc = "idle"

---------------------------------------------------------------------------
(* config.Load and main's flags *)

DefaultNamespace == "mwpcloud"

\* config.ParseNamespaces
ParseNamespaces(raw, defaultNS) ==
    LET trimmed == TrimSpace(raw)
        parts == Split(trimmed, ",")
        result == SelectSeq([i \in 1..Len(parts) |-> TrimSpace(parts[i])],
                            LAMBDA p : p # "")
    IN IF trimmed = "" THEN <<defaultNS>>
       ELSE IF Len(result) = 0 THEN <<defaultNS>>
       ELSE result

\* viper's lookup of key under AutomaticEnv: the variable when it is set and not
\* empty, else the default
EnvIsSet(e, key) == key \in DOMAIN e /\ e[key] # ""

GetString(e, key, default) == IF EnvIsSet(e, key) THEN e[key] ELSE default

\* v.GetBool(key): the variable's text goes through strconv.ParseBool, and a text
\* it rejects reads as false
GetBool(e, key, default) ==
    IF EnvIsSet(e, key) THEN e[key] \in ParseBoolTrue ELSE default

\* config.Load, for the fields the run reads from it
Load(e) ==
    [Namespaces |-> ParseNamespaces(GetString(e, "NAMESPACE", DefaultNamespace),
                                    DefaultNamespace),
     DryRun |-> GetBool(e, "DRY_RUN", TRUE)]

\* the values of the environment variables
EnvDryRunValues == {"", "true", "false", "1", "0", "yes"}
EnvNamespaceValues ==
    {"", "staging-ns", "mwpcloud,staging-ns", " mwpcloud , staging-ns ",
     "mwpcloud,mwpcloud", " , "}

Environments ==
    {e \in Maps({"DRY_RUN", "NAMESPACE"}, EnvDryRunValues \cup EnvNamespaceValues) :
        /\ "DRY_RUN" \in DOMAIN e => e["DRY_RUN"] \in EnvDryRunValues
        /\ "NAMESPACE" \in DOMAIN e => e["NAMESPACE"] \in EnvNamespaceValues}

\* the command line: for each flag given, the text after "=" (a bare --dry-run
\* stands for --dry-run=true, the flag's NoOptDefVal)
ArgDryRunValues == {"true", "false", "no"}
ArgNamespaceValues == {"", "staging-ns,mwpcloud"}

CommandLines ==
    {a \in Maps({"dry-run", "namespace"}, ArgDryRunValues \cup ArgNamespaceValues) :
        /\ "dry-run" \in DOMAIN a => a["dry-run"] \in ArgDryRunValues
        /\ "namespace" \in DOMAIN a => a["namespace"] \in ArgNamespaceValues}

\* the cliFlags before parsing: the registered defaults, nothing Changed
FlagDefaults == [namespace |-> "", dryRun |-> TRUE, changed |-> {}]

NoConfig == [Namespaces |-> <<>>, DryRun |-> TRUE]

InitConfig ==
    /\ env \in Environments
    /\ args \in CommandLines
    /\ flags = FlagDefaults
    /\ loaded = NoConfig
    /\ cfgPc = "parse"

ConfigIdle ==
    /\ env = <<>> /\ args = <<>> /\ flags = FlagDefaults /\ loaded = NoConfig
    /\ cfgPc = "idle"

\* rootCmd.Execute parsing the flags: a --dry-run value strconv.ParseBool rejects
\* ends the process with exit code 1 before run is called
ParseFlags ==
    /\ cfgPc = "parse"
    /\ IF "dry-run" \in DOMAIN args /\ args["dry-run"] \notin ParseBoolTrue \cup ParseBoolFalse
       THEN /\ cfgPc' = "exit1"
            /\ flags' = flags
       ELSE /\ cfgPc' = "load"
            /\ flags' =
                 [namespace |-> IF "namespace" \in DOMAIN args THEN args["namespace"]
                                ELSE flags.namespace,
                  dryRun |-> IF "dry-run" \in DOMAIN args
                             THEN args["dry-run"] \in ParseBoolTrue
                             ELSE flags.dryRun,
                  changed |-> DOMAIN args]
    /\ UNCHANGED <<env, args, loaded>>
    /\ UNCHANGED <<planVars, runVars, resolveVars>>

\* run: cfg, err := config.Load()
LoadConfig ==
    /\ cfgPc = "load"
    /\ loaded' = Load(env)
    /\ cfgPc' = "override"
    /\ UNCHANGED <<env, args, flags>>
    /\ UNCHANGED <<planVars, runVars, resolveVars>>

\* applyFlagOverrides, for the namespace and dry-run flags
ApplyFlagOverrides(f, c) ==
    [Namespaces |-> IF "namespace" \in f.changed
                    THEN ParseNamespaces(f.namespace, c.Namespaces[1])
                    ELSE c.Namespaces,
     DryRun |-> IF "dry-run" \in f.changed THEN f.dryRun ELSE c.DryRun]

ApplyFlags ==
    /\ cfgPc = "override"
    /\ loaded' = ApplyFlagOverrides(flags, loaded)
    /\ cfgPc' = "configured"
    /\ UNCHANGED <<env, args, flags>>
    /\ UNCHANGED <<planVars, runVars, resolveVars>>

NextConfig == ParseFlags \/ LoadConfig \/ ApplyFlags

---------------------------------------------------------------------------
(* The cluster *)

AnnotationChecksumConfig == "checksum/config"

\* the ConfigMaps of each namespace at the start of the run, in the order the API
\* lists them (by name)
ClusterConfigMaps(ns) ==
    IF ns = "mwpcloud" THEN
        << [Name |-> "app-config-b870a608", CreationTimestamp |-> 1, Annotations |-> <<>>],
           [Name |-> "app-config-e6120fae", CreationTimestamp |-> 2, Annotations |-> <<>>],
           [Name |-> "app-config-sync-config-f3bca2cb", CreationTimestamp |-> 0,
            Annotations |-> <<>>] >>
    ELSE IF ns = "staging-ns" THEN
        << [Name |-> "app-config-d5eb6ebf", CreationTimestamp |-> 0, Annotations |-> <<>>],
           [Name |-> "app-config-e6120fae", CreationTimestamp |-> 1, Annotations |-> <<>>] >>
    ELSE <<>>

ClusterNamespaces == {"mwpcloud", "staging-ns"}

ConfigMapNames(ns) == {ClusterConfigMaps(ns)[k].Name : k \in 1..Len(ClusterConfigMaps(ns))}

OwnedBy(kind, name) == <<[Kind |-> kind, Name |-> name]>>

ChecksumAnnotation(c) == [k \in {AnnotationChecksumConfig} |-> c]

\* the ReplicaSets a namespace can hold
RsActive ==
    [Name |-> "app-65df947c4c", OwnerReferences |-> OwnedBy("Rollout", "app"),
     TemplateAnnotations |-> ChecksumAnnotation("e6120fae")]
RsPrevious ==
    [Name |-> "app-847848bbcf", OwnerReferences |-> OwnedBy("Rollout", "app"),
     TemplateAnnotations |-> ChecksumAnnotation("b870a608")]
RsOfDeployment ==
    [Name |-> "sync-6977fddb67", OwnerReferences |-> OwnedBy("Deployment", "sync"),
     TemplateAnnotations |-> ChecksumAnnotation("f3bca2cb")]
RsWithoutChecksum ==
    [Name |-> "app-68b7bd46c8", OwnerReferences |-> OwnedBy("Rollout", "app"),
     TemplateAnnotations |-> <<>>]

ReplicaSetChoices ==
    { {}, {RsActive}, {RsActive, RsPrevious}, {RsActive, RsOfDeployment, RsWithoutChecksum} }

\* the Rollouts of mwpcloud: none, one, or two of which one's name extends the
\* other's ConfigMap prefix
RolloutChoices == { <<>>, <<"app">>, <<"app", "app-config-sync">> }

---------------------------------------------------------------------------
(* The Kubernetes clients *)

\* KubeRolloutClient.ListRolloutNames, on success
ListRolloutNames(ns) == rollouts[ns]

\* slip: any owner reference accepted, whatever its kind
OwnedByAnyOwner(rs) == Len(rs.OwnerReferences) > 0

\* KubeReplicaSetClient.ListNamespaceRolloutReplicaSets keeps the ReplicaSets with at
\* least one owner reference of kind Rollout, whatever the Rollout's name
OwnedByARollout(rs) ==
    \E k \in 1..Len(rs.OwnerReferences) : rs.OwnerReferences[k].Kind = "Rollout"

ListNamespaceRolloutReplicaSets(ns) == {rs \in replicaSets[ns] : OwnedByARollout(rs)}

\* slip: a present annotation accepted whatever its value
ExtractChecksumIfPresent(rs) ==
    [checksum |-> MapStr(rs.TemplateAnnotations, AnnotationChecksumConfig),
     ok |-> AnnotationChecksumConfig \in DOMAIN rs.TemplateAnnotations]

\* ExtractChecksum: the checksum/config annotation of the pod template, and whether
\* it is present and not empty
ExtractChecksum(rs) ==
    [checksum |-> MapStr(rs.TemplateAnnotations, AnnotationChecksumConfig),
     ok |-> /\ AnnotationChecksumConfig \in DOMAIN rs.TemplateAnnotations
            /\ rs.TemplateAnnotations[AnnotationChecksumConfig] # ""]

\* InUseResolver.Resolve, on success: the checksums map
Resolve(ns) ==
    LET found == {ExtractChecksum(rs).checksum :
                     rs \in {x \in ListNamespaceRolloutReplicaSets(ns) : ExtractChecksum(x).ok}}
    IN [c \in found |-> TRUE]

\* KubeConfigMapClient.ListConfigMaps, on success: the existing ConfigMaps whose name
\* starts with namePrefix
ListConfigMaps(ns, namePrefix) ==
    SelectSeq(ClusterConfigMaps(ns),
              LAMBDA cm : cm.Name \in configMaps[ns] /\ HasPrefix(cm.Name, namePrefix))

---------------------------------------------------------------------------
(* InUseResolver.Resolve *)

RsEmptyChecksum ==
    [Name |-> "app-5c9d8f7b6d", OwnerReferences |-> OwnedBy("Rollout", "app"),
     TemplateAnnotations |-> ChecksumAnnotation("")]
RsNoOwner ==
    [Name |-> "standalone-rs", OwnerReferences |-> <<>>,
     TemplateAnnotations |-> ChecksumAnnotation("d5eb6ebf")]
RsOtherRollout ==
    [Name |-> "other-app-abc123", OwnerReferences |-> OwnedBy("Rollout", "other-rollout"),
     TemplateAnnotations |-> ChecksumAnnotation("e6120fae")]
RsTwoOwners ==
    [Name |-> "app-7d4b9c6f5",
     OwnerReferences |-> OwnedBy("Deployment", "sync") \o OwnedBy("Rollout", "app"),
     TemplateAnnotations |-> ChecksumAnnotation("da8762a8")]

ReplicaSetPool ==
    {RsActive, RsPrevious, RsOfDeployment, RsWithoutChecksum,
     RsEmptyChecksum, RsNoOwner, RsOtherRollout, RsTwoOwners}

\* the listings of a namespace: up to MaxRs ReplicaSets, each object once
ReplicaSetLists ==
    {l \in UNION {[1..n -> ReplicaSetPool] : n \in 0..MaxRs} :
        \A i, j \in 1..Len(l) : l[i] = l[j] => i = j}

\* ListNamespaceRolloutReplicaSets on success, on the listed items
RolloutOwned(items) == SelectSeq(items, OwnedByARollout)

\* slip: each checksum replaces the map instead of joining it
RECURSIVE CollectChecksumsOverwriting(_, _, _)
CollectChecksumsOverwriting(rsList, i, checksums) ==
    IF i > Len(rsList) THEN checksums
    ELSE LET e == ExtractChecksum(rsList[i])
         IN CollectChecksumsOverwriting(rsList, i + 1,
                IF ~e.ok THEN checksums ELSE [c \in {e.checksum} |-> TRUE])

\* the loop of Resolve over rsList[i..]: checksums[checksum] = true for every
\* ReplicaSet ExtractChecksum accepts
RECURSIVE CollectChecksums(_, _, _)
CollectChecksums(rsList, i, checksums) ==
    IF i > Len(rsList) THEN checksums
    ELSE LET e == ExtractChecksum(rsList[i])
         IN CollectChecksums(rsList, i + 1,
                IF ~e.ok THEN checksums
                ELSE [c \in DOMAIN checksums \cup {e.checksum} |-> TRUE])

\* slip: a failed listing reported as an empty set
ResolverSwallowingError(listFails, items) ==
    [checksums |-> IF listFails THEN <<>> ELSE CollectChecksums(RolloutOwned(items), 1, <<>>),
     isNil |-> FALSE, err |-> FALSE]

\* Resolve as a whole: (nil, err) when the listing fails, (checksums, nil) otherwise
Resolver(listFails, items) ==
    IF listFails
    THEN [checksums |-> <<>>, isNil |-> TRUE, err |-> TRUE]
    ELSE [checksums |-> CollectChecksums(RolloutOwned(items), 1, <<>>),
          isNil |-> FALSE, err |-> FALSE]

NotResolved == [checksums |-> <<>>, isNil |-> TRUE, err |-> FALSE]

ResolveInputs ==
    /\ rsItems \in ReplicaSetLists
    /\ rsListFails \in BOOLEAN
    /\ resolved = NotResolved
    /\ resolvePc = "call"

ResolveIdle ==
    /\ rsItems = <<>> /\ rsListFails = FALSE /\ resolved = NotResolved
    /\ resolvePc = "idle"

ResolveCall ==
    /\ resolvePc = "call"
    /\ resolved' = Resolver(rsListFails, rsItems)
    /\ resolvePc' = "returned"
    /\ UNCHANGED <<rsItems, rsListFails>>
    /\ UNCHANGED <<planVars, configVars, runVars>>

---------------------------------------------------------------------------
(* run, runForNamespace, runForRollout *)

\* slip: the inUse map keyed by the checksums themselves, so that only a ConfigMap
\* named exactly like a checksum is marked
BuildInUseExactName(candidateCMs, checksums) ==
    [n \in DOMAIN checksums |-> TRUE]

\* the inUse map of runForRollout: the candidates whose name contains a checksum
BuildInUse(candidateCMs, checksums) ==
    LET marked == {candidateCMs[k].Name : k \in
                      {j \in 1..Len(candidateCMs) :
                          \E c \in DOMAIN checksums : Contains(candidateCMs[j].Name, c)}}
    IN [n \in marked |-> TRUE]

\* the planner candidates built from the listed ConfigMaps
BuildCandidates(candidateCMs) ==
    [k \in 1..Len(candidateCMs) |->
        [Name |-> candidateCMs[k].Name,
         CreationTimestamp |-> candidateCMs[k].CreationTimestamp,
         Annotations |-> candidateCMs[k].Annotations]]

\* slip: the deletions run in dry-run mode too
SkipDeletionsNever(c) == FALSE

\* if cfg.DryRun { ... return false }: the guard in front of the deletion loop
SkipDeletions(c) == c.DryRun

\* the goroutines of the run; none runs on once the process has exited
Goroutines == IF mainPc = "exited" THEN {} ELSE 1..Len(cfg.Namespaces)

\* trace is history: the calls the goroutine made and the returns of
\* runForRollout and runForNamespace, in order
NewGoroutine(ns) ==
    [pc |-> "unspawned", ns |-> ns, rolloutNames |-> <<>>, checksums |-> <<>>,
     r |-> 0, toDelete |-> <<>>, d |-> 0, rfailed |-> FALSE, failed |-> FALSE,
     trace |-> <<>>]

\* the goroutine's trace extended by one call or return and its outcome
Log(g, op, arg, names, ok) ==
    [g EXCEPT !.trace = Append(@, [op |-> op, arg |-> arg, names |-> names, ok |-> ok])]

\* runForNamespace returns: its locals go
Returning(g, failed) ==
    [Log(g, "runForNamespace", g.ns, <<>>, ~failed)
        EXCEPT !.pc = "returned", !.rolloutNames = <<>>, !.checksums = <<>>, !.r = 0,
               !.toDelete = <<>>, !.d = 0, !.rfailed = FALSE, !.failed = failed]

\* slip: runForNamespace returns at the first Rollout group that failed
NextRolloutStoppingOnFailure(g, rfailed) ==
    LET h == Log(g, "runForRollout", g.rolloutNames[g.r], <<>>, ~rfailed)
    IN IF g.r + 1 > Len(g.rolloutNames) \/ rfailed
       THEN Returning(h, g.failed \/ rfailed)
       ELSE [h EXCEPT !.pc = "listConfigMaps", !.r = g.r + 1, !.toDelete = <<>>,
                      !.d = 0, !.rfailed = FALSE, !.failed = g.failed \/ rfailed]

\* runForRollout returns rfailed: runForNamespace goes on with the next Rollout,
\* or returns after the last
NextRollout(g, rfailed) ==
    LET h == Log(g, "runForRollout", g.rolloutNames[g.r], <<>>, ~rfailed)
    IN IF g.r + 1 > Len(g.rolloutNames)
       THEN Returning(h, g.failed \/ rfailed)
       ELSE [h EXCEPT !.pc = "listConfigMaps", !.r = g.r + 1, !.toDelete = <<>>,
                      !.d = 0, !.rfailed = FALSE, !.failed = g.failed \/ rfailed]

RunConfigs ==
    [Namespaces : {ParseNamespaces(raw, DefaultNamespace) :
                      raw \in {"", "mwpcloud,staging-ns", "mwpcloud,mwpcloud"}},
     KeepLast : {0, 1},
     KeepDays : {0, 1},
     DryRun : BOOLEAN]

InitRun ==
    /\ cfg \in RunConfigs
    /\ clock = MaxTime
    /\ \E rs \in RolloutChoices :
          rollouts = [ns \in ClusterNamespaces |-> IF ns = "mwpcloud" THEN rs ELSE <<"app">>]
    /\ \E rss \in ReplicaSetChoices :
          replicaSets = [ns \in ClusterNamespaces |-> IF ns = "mwpcloud" THEN rss ELSE {}]
    /\ configMaps = [ns \in ClusterNamespaces |-> ConfigMapNames(ns)]
    /\ gr = [i \in 1..Len(cfg.Namespaces) |-> NewGoroutine(cfg.Namespaces[i])]
    /\ anyFailed = 0
    /\ wg = 0
    /\ mainPc = "spawn"
    /\ spawned = 0
    /\ exitCode = -1
    /\ deleteCalls = EmptyBag

RunIdle ==
    /\ cfg = [Namespaces |-> <<>>, KeepLast |-> 0, KeepDays |-> 0, DryRun |-> TRUE]
    /\ clock = 0
    /\ rollouts = <<>> /\ replicaSets = <<>> /\ configMaps = <<>>
    /\ gr = <<>>
    /\ anyFailed = 0 /\ wg = 0 /\ mainPc = "idle" /\ spawned = 0 /\ exitCode = -1
    /\ deleteCalls = EmptyBag

clusterVars == <<cfg, clock, rollouts, replicaSets>>

\* run: wg.Add(1); go func(ns) {...}(ns), for the next namespace of cfg.Namespaces
Spawn ==
    /\ mainPc = "spawn"
    /\ spawned < Len(cfg.Namespaces)
    /\ wg' = wg + 1
    /\ spawned' = spawned + 1
    /\ gr' = [gr EXCEPT ![spawned + 1].pc = "listRollouts"]
    /\ mainPc' = IF spawned + 1 = Len(cfg.Namespaces) THEN "wait" ELSE "spawn"
    /\ UNCHANGED <<clusterVars, configMaps, anyFailed, exitCode, deleteCalls>>
    /\ UNCHANGED <<planVars, configVars, resolveVars>>

\* runForNamespace: ListRolloutNames succeeds
ListRolloutsOk(i) ==
    /\ gr[i].pc = "listRollouts"
    /\ LET rolloutNames == ListRolloutNames(gr[i].ns)
           g == Log(gr[i], "ListRolloutNames", gr[i].ns, rolloutNames, TRUE)
       IN gr' = [gr EXCEPT ![i] =
                    IF Len(rolloutNames) = 0 THEN Returning(g, FALSE)
                    ELSE [g EXCEPT !.pc = "resolve", !.rolloutNames = rolloutNames]]
    /\ UNCHANGED <<clusterVars, configMaps, anyFailed, wg, mainPc, spawned, exitCode,
                   deleteCalls>>
    /\ UNCHANGED <<planVars, configVars, resolveVars>>

\* runForNamespace: ListRolloutNames fails
ListRolloutsErr(i) ==
    /\ gr[i].pc = "listRollouts"
    /\ gr' = [gr EXCEPT ![i] =
                 Returning(Log(@, "ListRolloutNames", gr[i].ns, <<>>, FALSE), TRUE)]
    /\ UNCHANGED <<clusterVars, configMaps, anyFailed, wg, mainPc, spawned, exitCode,
                   deleteCalls>>
    /\ UNCHANGED <<planVars, configVars, resolveVars>>

\* runForNamespace: resolver.Resolve succeeds
ResolveOk(i) ==
    /\ gr[i].pc = "resolve"
    /\ gr' = [gr EXCEPT ![i] =
                 [Log(@, "Resolve", gr[i].ns, Resolve(gr[i].ns), TRUE)
                     EXCEPT !.pc = "listConfigMaps", !.r = 1,
                            !.checksums = Resolve(gr[i].ns)]]
    /\ UNCHANGED <<clusterVars, configMaps, anyFailed, wg, mainPc, spawned, exitCode,
                   deleteCalls>>
    /\ UNCHANGED <<planVars, configVars, resolveVars>>

\* slip: the resolver's error logged and the cycle going on with an empty set
ResolveErrGoingOn(i) ==
    /\ gr[i].pc = "resolve"
    /\ gr' = [gr EXCEPT ![i] =
                 [Log(@, "Resolve", gr[i].ns, <<>>, FALSE)
                     EXCEPT !.pc = "listConfigMaps", !.r = 1, !.checksums = <<>>]]
    /\ UNCHANGED <<clusterVars, configMaps, anyFailed, wg, mainPc, spawned, exitCode,
                   deleteCalls>>
    /\ UNCHANGED <<planVars, configVars, resolveVars>>

\* runForNamespace: resolver.Resolve fails
ResolveErr(i) ==
    /\ gr[i].pc = "resolve"
    /\ gr' = [gr EXCEPT ![i] = Returning(Log(@, "Resolve", gr[i].ns, <<>>, FALSE), TRUE)]
    /\ UNCHANGED <<clusterVars, configMaps, anyFailed, wg, mainPc, spawned, exitCode,
                   deleteCalls>>
    /\ UNCHANGED <<planVars, configVars, resolveVars>>

\* runForRollout up to the planner's result: ListConfigMaps succeeds
PlanRolloutOk(i) ==
    /\ gr[i].pc = "listConfigMaps"
    /\ \E prefix \in {gr[i].rolloutNames[gr[i].r] \o "-config-"} :
       \E candidateCMs \in {ListConfigMaps(gr[i].ns, prefix)} :
       \E inUse \in {BuildInUse(candidateCMs, gr[i].checksums)} :
       \E candidates \in {BuildCandidates(candidateCMs)} :
       \E toDelete \in {Plan(candidates, inUse, cfg.KeepLast, cfg.KeepDays, clock)} :
       \E g \in {Log(gr[i], "ListConfigMaps", prefix,
                     [k \in 1..Len(candidateCMs) |-> candidateCMs[k].Name], TRUE)} :
       \E h \in {Log(g, "Plan", prefix, toDelete, TRUE)} :
          gr' = [gr EXCEPT ![i] =
                    IF Len(candidateCMs) = 0 THEN NextRollout(g, FALSE)
                    ELSE IF Len(toDelete) = 0 THEN NextRollout(h, FALSE)
                    ELSE [h EXCEPT !.pc = "act", !.toDelete = toDelete]]
    /\ UNCHANGED <<clusterVars, configMaps, anyFailed, wg, mainPc, spawned, exitCode,
                   deleteCalls>>
    /\ UNCHANGED <<planVars, configVars, resolveVars>>

\* runForRollout: ListConfigMaps fails
PlanRolloutErr(i) ==
    /\ gr[i].pc = "listConfigMaps"
    /\ gr' = [gr EXCEPT ![i] =
                 NextRollout(Log(@, "ListConfigMaps",
                                 gr[i].rolloutNames[gr[i].r] \o "-config-", <<>>, FALSE),
                             TRUE)]
    /\ UNCHANGED <<clusterVars, configMaps, anyFailed, wg, mainPc, spawned, exitCode,
                   deleteCalls>>
    /\ UNCHANGED <<planVars, configVars, resolveVars>>

\* runForRollout with a delete list: the log lines, then return in dry-run mode or
\* enter the deletion loop
Act(i) ==
    /\ gr[i].pc = "act"
    /\ gr' = [gr EXCEPT ![i] =
                 IF SkipDeletions(cfg) THEN NextRollout(@, FALSE)
                 ELSE [@ EXCEPT !.pc = "delete", !.d = 1, !.rfailed = FALSE]]
    /\ UNCHANGED <<clusterVars, configMaps, anyFailed, wg, mainPc, spawned, exitCode,
                   deleteCalls>>
    /\ UNCHANGED <<planVars, configVars, resolveVars>>

\* slip: the loop left at the first failed deletion
AfterDeleteStoppingOnError(g, rfailed) ==
    IF g.d + 1 > Len(g.toDelete) \/ rfailed THEN NextRollout(g, rfailed)
    ELSE [g EXCEPT !.d = g.d + 1, !.rfailed = rfailed]

\* the deletion loop moves on from toDelete[d], or runForRollout returns
AfterDelete(g, rfailed) ==
    IF g.d + 1 > Len(g.toDelete) THEN NextRollout(g, rfailed)
    ELSE [g EXCEPT !.d = g.d + 1, !.rfailed = rfailed]

\* DeleteConfigMap(ns, toDelete[d]) succeeds: the ConfigMap is gone
DeleteOk(i) ==
    /\ gr[i].pc = "delete"
    /\ LET name == gr[i].toDelete[gr[i].d]
       IN /\ name \in configMaps[gr[i].ns]
          /\ configMaps' = [configMaps EXCEPT ![gr[i].ns] = @ \ {name}]
          /\ deleteCalls' = deleteCalls (+) SetToBag({<<gr[i].ns, name>>})
    /\ gr' = [gr EXCEPT ![i] =
                 AfterDelete(Log(@, "DeleteConfigMap", gr[i].toDelete[gr[i].d], <<>>, TRUE),
                             gr[i].rfailed)]
    /\ UNCHANGED <<clusterVars, anyFailed, wg, mainPc, spawned, exitCode>>
    /\ UNCHANGED <<planVars, configVars, resolveVars>>

\* DeleteConfigMap(ns, toDelete[d]) fails: the API call fails, or the ConfigMap does
\* not exist any more
DeleteErr(i) ==
    /\ gr[i].pc = "delete"
    /\ deleteCalls' = deleteCalls (+) SetToBag({<<gr[i].ns, gr[i].toDelete[gr[i].d]>>})
    /\ gr' = [gr EXCEPT ![i] =
                 AfterDelete(Log(@, "DeleteConfigMap", gr[i].toDelete[gr[i].d], <<>>, FALSE),
                             TRUE)]
    /\ UNCHANGED <<clusterVars, configMaps, anyFailed, wg, mainPc, spawned, exitCode>>
    /\ UNCHANGED <<planVars, configVars, resolveVars>>

\* slip: a failed namespace ends the process at once
StoreFailedExiting(i) ==
    /\ gr[i].pc = "returned"
    /\ anyFailed' = IF gr[i].failed THEN 1 ELSE anyFailed
    /\ gr' = [gr EXCEPT ![i].pc = "deferred"]
    /\ mainPc' = IF gr[i].failed THEN "exited" ELSE mainPc
    /\ exitCode' = IF gr[i].failed THEN 2 ELSE exitCode
    /\ UNCHANGED <<clusterVars, configMaps, wg, spawned, deleteCalls>>
    /\ UNCHANGED <<planVars, configVars, resolveVars>>

\* the goroutine after runForNamespace: if failed { anyFailed.Store(1) }
StoreFailed(i) ==
    /\ gr[i].pc = "returned"
    /\ anyFailed' = IF gr[i].failed THEN 1 ELSE anyFailed
    /\ gr' = [gr EXCEPT ![i].pc = "deferred"]
    /\ UNCHANGED <<clusterVars, configMaps, wg, mainPc, spawned, exitCode, deleteCalls>>
    /\ UNCHANGED <<planVars, configVars, resolveVars>>

\* defer wg.Done()
WgDone(i) ==
    /\ gr[i].pc = "deferred"
    /\ wg' = wg - 1
    /\ gr' = [gr EXCEPT ![i].pc = "done"]
    /\ UNCHANGED <<clusterVars, configMaps, anyFailed, mainPc, spawned, exitCode,
                   deleteCalls>>
    /\ UNCHANGED <<planVars, configVars, resolveVars>>

\* slip: the exit decision taken without wg.Wait()
WaitAndExitWithoutWaiting ==
    /\ mainPc = "wait"
    /\ exitCode' = IF anyFailed # 0 THEN 2 ELSE 0
    /\ mainPc' = "exited"
    /\ UNCHANGED <<clusterVars, configMaps, gr, anyFailed, wg, spawned, deleteCalls>>
    /\ UNCHANGED <<planVars, configVars, resolveVars>>

\* wg.Wait() returns; os.Exit(2) if anyFailed.Load() != 0, else run returns nil
WaitAndExit ==
    /\ mainPc = "wait"
    /\ wg = 0
    /\ exitCode' = IF anyFailed # 0 THEN 2 ELSE 0
    /\ mainPc' = "exited"
    /\ UNCHANGED <<clusterVars, configMaps, gr, anyFailed, wg, spawned, deleteCalls>>
    /\ UNCHANGED <<planVars, configVars, resolveVars>>

NextRun ==
    \/ Spawn
    \/ \E i \in Goroutines : ListRolloutsOk(i)
    \/ \E i \in Goroutines : ListRolloutsErr(i)
    \/ \E i \in Goroutines : ResolveOk(i)
    \/ \E i \in Goroutines : ResolveErr(i)
    \/ \E i \in Goroutines : PlanRolloutOk(i)
    \/ \E i \in Goroutines : PlanRolloutErr(i)
    \/ \E i \in Goroutines : Act(i)
    \/ \E i \in Goroutines : DeleteOk(i)
    \/ \E i \in Goroutines : DeleteErr(i)
    \/ \E i \in Goroutines : StoreFailed(i)
    \/ \E i \in Goroutines : WgDone(i)
    \/ WaitAndExit

\* the cluster while a run is under way: a Rollout of mwpcloud is updated or rolled
\* back and its controller creates the ReplicaSet of that revision, which the next
\* List of ReplicaSets would return
ReplicaSetApplied ==
    /\ mainPc # "exited"
    /\ \E rs \in {RsActive, RsPrevious} :
          /\ rs \notin replicaSets["mwpcloud"]
          /\ replicaSets' = [replicaSets EXCEPT !["mwpcloud"] = @ \cup {rs}]
    /\ UNCHANGED <<cfg, clock, rollouts, configMaps, gr, anyFailed, wg, mainPc, spawned,
                   exitCode, deleteCalls>>
    /\ UNCHANGED <<planVars, configVars, resolveVars>>

NextLiveCluster == NextRun \/ ReplicaSetApplied

---------------------------------------------------------------------------
(* Specifications *)

InitPlan == PlanInputs(ListedCandidateLists) /\ ConfigIdle /\ RunIdle /\ ResolveIdle
InitPlanRepeated == PlanInputs(CandidateLists) /\ ConfigIdle /\ RunIdle /\ ResolveIdle

NextPlan == PlanCall

SpecPlan == InitPlan /\ [][NextPlan]_vars
SpecPlanRepeated == InitPlanRepeated /\ [][NextPlan]_vars

InitPlanTwice == PlanInputs(PlainCandidateLists) /\ ConfigIdle /\ RunIdle /\ ResolveIdle

NextPlanTwice == PlanCall \/ PlanCallAgain

SpecPlanTwice == InitPlanTwice /\ [][NextPlanTwice]_vars

InitStartup == InitConfig /\ PlanIdle /\ RunIdle /\ ResolveIdle

SpecConfig == InitStartup /\ [][NextConfig]_vars

Init == InitRun /\ PlanIdle /\ ConfigIdle /\ ResolveIdle

InitResolve == ResolveInputs /\ PlanIdle /\ ConfigIdle /\ RunIdle

NextResolve == ResolveCall

SpecResolve == InitResolve /\ [][NextResolve]_vars

Next == NextRun

Spec == Init /\ [][Next]_vars

\* every API call returns and the runtime schedules a goroutine that can run
Fairness == WF_vars(Next)

\* the runs whose configured namespaces are pairwise different
InitFair ==
    /\ Init
    /\ \A i, j \in 1..Len(cfg.Namespaces) :
          cfg.Namespaces[i] = cfg.Namespaces[j] => i = j

FairSpec == InitFair /\ [][Next]_vars /\ Fairness

\* the runs on the one namespace mwpcloud, in a cluster that changes meanwhile
InitLiveCluster ==
    /\ Init
    /\ cfg.Namespaces = <<"mwpcloud">>

SpecLiveCluster == InitLiveCluster /\ [][NextLiveCluster]_vars

---------------------------------------------------------------------------
(* Properties of planner.Plan *)

Returned == planPc = "returned"

PlanIdx == 1..Len(planCms)

\* the name occurs in the delete list Plan returned
Deleted(name) == \E k \in 1..Len(planResult) : planResult[k] = name

Age(i) == Sub(planNow, planCms[i].CreationTimestamp)

\* how many other candidates are as new as candidate i or newer
NewerOrEqualOthers(i) ==
    Cardinality({j \in PlanIdx \ {i} :
                    planCms[j].CreationTimestamp >= planCms[i].CreationTimestamp})

\* 0-based position of candidate i among the candidates ordered newest first,
\* equal timestamps in input order
Rank(i) ==
    Cardinality({j \in PlanIdx :
                    \/ planCms[j].CreationTimestamp > planCms[i].CreationTimestamp
                    \/ /\ planCms[j].CreationTimestamp = planCms[i].CreationTimestamp
                       /\ j < i})

IsInUse(i) == planCms[i].Name \in DOMAIN planInUse /\ planInUse[planCms[i].Name]

IsProtected(i) ==
    /\ AnnotationProtect \in DOMAIN planCms[i].Annotations
    /\ planCms[i].Annotations[AnnotationProtect] = "true"

HasPruneLast(i) ==
    /\ AnnotationSyncOptions \in DOMAIN planCms[i].Annotations
    /\ Contains(planCms[i].Annotations[AnnotationSyncOptions], "PruneLast=true")

\* candidate i is excluded by nothing but, possibly, its rank or its age
Unshielded(i) == ~IsInUse(i) /\ ~IsProtected(i) /\ ~HasPruneLast(i)

\* C1: no candidate whose name the in-use map holds as true is in the delete list,
\* whatever keepLast, keepDays and now are.
C1_InUseNeverDeleted ==
    Returned => \A i \in PlanIdx : IsInUse(i) => ~Deleted(planCms[i].Name)

\* an in-use candidate that every other filter lets through, next to a deleted one
C1_Witness ==
    /\ Returned
    /\ planResult # <<>>
    /\ \E i \in PlanIdx :
          /\ IsInUse(i) /\ ~IsProtected(i) /\ ~HasPruneLast(i)
          /\ Rank(i) >= planKeepLast
          /\ Age(i) >= KeepDuration(planKeepDays)

\* C2: with keepLast >= 0, a candidate with fewer than keepLast other candidates as
\* new as it or newer (inside the newest keepLast under every tie-breaking) is not in
\* the delete list, whatever its age, in-use status and annotations.
C2_NewestKeepLastNeverDeleted ==
    (Returned /\ planKeepLast >= 0) =>
        \A i \in PlanIdx :
            NewerOrEqualOthers(i) < planKeepLast => ~Deleted(planCms[i].Name)

\* a candidate only its rank shields, while an older one is deleted
C2_Witness ==
    /\ Returned
    /\ planKeepLast >= 1
    /\ planResult # <<>>
    /\ \E i \in PlanIdx :
          /\ NewerOrEqualOthers(i) < planKeepLast
          /\ Unshielded(i)
          /\ Age(i) >= KeepDuration(planKeepDays)

\* C3: with keepDays >= 0, a candidate whose age now.Sub(creationTimestamp) is below
\* the threshold keepDays * 24h, as Plan computes it in the Duration word, is not in
\* the delete list.
C3_TooNewNeverDeleted ==
    (Returned /\ planKeepDays >= 0) =>
        \A i \in PlanIdx :
            Age(i) < KeepDuration(planKeepDays) => ~Deleted(planCms[i].Name)

\* a candidate only its age shields, while an older one is deleted
C3_Witness ==
    /\ Returned
    /\ planResult # <<>>
    /\ \E i \in PlanIdx :
          /\ Age(i) < KeepDuration(planKeepDays)
          /\ Age(i) >= 0
          /\ Unshielded(i)
          /\ Rank(i) >= planKeepLast

\* C4: a candidate annotated gc.k8s.io/protect = "true" is not in the delete list.
C4_ProtectedNeverDeleted ==
    Returned => \A i \in PlanIdx : IsProtected(i) => ~Deleted(planCms[i].Name)

\* a protected candidate that every other filter lets through
C4_Witness ==
    /\ Returned
    /\ \E i \in PlanIdx :
          /\ IsProtected(i) /\ ~IsInUse(i) /\ ~HasPruneLast(i)
          /\ Rank(i) >= planKeepLast
          /\ Age(i) >= KeepDuration(planKeepDays)

\* C5: a candidate whose argocd.argoproj.io/sync-options annotation contains
\* PruneLast=true is not in the delete list.
C5_PruneLastNeverDeleted ==
    Returned => \A i \in PlanIdx : HasPruneLast(i) => ~Deleted(planCms[i].Name)

\* a candidate with PruneLast=true inside a longer option list, which every other
\* filter lets through
C5_Witness ==
    /\ Returned
    /\ \E i \in PlanIdx :
          /\ HasPruneLast(i) /\ ~IsInUse(i) /\ ~IsProtected(i)
          /\ planCms[i].Annotations[AnnotationSyncOptions] # "PruneLast=true"
          /\ Rank(i) >= planKeepLast
          /\ Age(i) >= KeepDuration(planKeepDays)

\* C8: every name in the delete list is the name of a candidate of the input list.
C8_OnlyCandidateNames ==
    Returned =>
        \A k \in 1..Len(planResult) : \E i \in PlanIdx : planCms[i].Name = planResult[k]

\* a name is deleted while the in-use map also holds a name that is no candidate
C8_Witness ==
    /\ Returned
    /\ planResult # <<>>
    /\ \E n \in DOMAIN planInUse : \A i \in PlanIdx : planCms[i].Name # n

\* C9: no name occurs more than once in the delete list, whether or not the names
\* of the candidate list are pairwise distinct.
C9_NoNameTwice ==
    Returned =>
        \A k, l \in 1..Len(planResult) : planResult[k] = planResult[l] => k = l

\* C10: the delete list holds exactly the candidates that pass every filter: those
\* outside the newest keepLast, not in use, not protected, without PruneLast=true
\* and at least keepDays * 24h old.
C10_ExactlyTheSurvivors ==
    Returned =>
        \A i \in PlanIdx :
            Deleted(planCms[i].Name) <=>
                /\ Rank(i) >= planKeepLast
                /\ Unshielded(i)
                /\ Age(i) >= KeepDuration(planKeepDays)

\* one candidate deleted at exactly the threshold age, another kept
C10_Witness ==
    /\ Returned
    /\ planKeepDays >= 1
    /\ \E i, j \in PlanIdx :
          /\ Deleted(planCms[i].Name)
          /\ Age(i) = KeepDuration(planKeepDays)
          /\ ~Deleted(planCms[j].Name)

\* the set of names in a delete list
Names(list) == {list[k] : k \in 1..Len(list)}

\* the lists holding the elements of s in another order (or the same)
Reorderings(s) ==
    {[i \in 1..Len(s) |-> s[f[i]]] :
        f \in {g \in [1..Len(s) -> 1..Len(s)] :
                  \A a, b \in 1..Len(s) : g[a] = g[b] => a = b}}

\* C11: Plan returns the same set of names for every permutation of the candidate
\* list, the other four parameters being equal, also when candidates share a
\* creation timestamp.
C11_OrderIrrelevant ==
    Returned =>
        \A p \in Reorderings(planCms) :
            Names(Plan(p, planInUse, planKeepLast, planKeepDays, planNow))
                = Names(planResult)

C13_KeepLastCoversAll ==
    (Returned /\ planKeepLast >= Len(planCms)) => planResult = <<>>

\* keepLast covers a non-empty list in which a candidate is stopped by nothing else
C13_Witness ==
    /\ Returned
    /\ planCms # <<>>
    /\ planKeepLast >= Len(planCms)
    /\ \E i \in PlanIdx : Unshielded(i) /\ Age(i) >= KeepDuration(planKeepDays)

\* C14: with keepDays = 0 a candidate outside the keepLast window, not in use and
\* without either exclusion annotation is in the delete list, wherever its creation
\* timestamp lies relative to now.
C14_KeepDaysZeroNoAgeFilter ==
    (Returned /\ planKeepDays = 0) =>
        \A i \in PlanIdx :
            (Rank(i) >= planKeepLast /\ Unshielded(i)) => Deleted(planCms[i].Name)

\* C15: with keepLast = 0 and keepDays = 0 every candidate that is not in use and
\* carries no exclusion annotation is in the delete list, whatever its age.
C15_BothZeroDeletesAll ==
    (Returned /\ planKeepLast = 0 /\ planKeepDays = 0) =>
        \A i \in PlanIdx : Unshielded(i) => Deleted(planCms[i].Name)

\* C16: a call of Plan leaves the caller's candidate slice (elements, order and
\* annotations maps) and the in-use map as they were.
C16_InputsUntouched ==
    [][planCms' = planCms /\ planInUse' = planInUse]_vars

\* Plan has returned deletions for a list that is not in sorted order and holds an
\* annotated candidate
C16_Witness ==
    /\ Returned
    /\ planResult # <<>>
    /\ SortFunc(planCms) # planCms
    /\ \E i \in PlanIdx : planCms[i].Annotations # <<>>

---------------------------------------------------------------------------
(* Properties of the start-up *)

Configured == cfgPc = "configured"

\* C7: dry-run is the default, and the effective DryRun is false only when DRY_RUN
\* or --dry-run is given as false (in any spelling strconv.ParseBool reads as
\* false); a flag that is given wins over the environment variable.
C7_DryRunUnlessToldFalse ==
    Configured =>
        /\ ("DRY_RUN" \notin DOMAIN env /\ "dry-run" \notin DOMAIN args) => loaded.DryRun
        /\ ~loaded.DryRun =>
              \/ "dry-run" \in DOMAIN args /\ args["dry-run"] \in ParseBoolFalse
              \/ "DRY_RUN" \in DOMAIN env /\ env["DRY_RUN"] \in ParseBoolFalse
        /\ "dry-run" \in DOMAIN args => (loaded.DryRun <=> args["dry-run"] \in ParseBoolTrue)

---------------------------------------------------------------------------
(* Properties of the run *)

\* C6: in dry-run mode the run makes no DeleteConfigMap call, and every namespace
\* holds the ConfigMaps it held at the start, whatever the planner returned.
C6_DryRunDeletesNothing ==
    cfg.DryRun =>
        /\ deleteCalls = EmptyBag
        /\ \A ns \in DOMAIN configMaps : configMaps[ns] = ConfigMapNames(ns)

\* in a dry run the planner has returned a non-empty delete list for a Rollout group
C6_Witness ==
    /\ cfg.DryRun
    /\ \E i \in DOMAIN gr : gr[i].pc = "act" /\ gr[i].toDelete # <<>>

---------------------------------------------------------------------------
(* Properties of InUseResolver.Resolve *)

Resolved == resolvePc = "returned"

RsIdx == 1..Len(rsItems)

\* listed ReplicaSet i has an owner reference of kind Rollout
HasRolloutOwner(i) ==
    \E k \in DOMAIN rsItems[i].OwnerReferences : rsItems[i].OwnerReferences[k].Kind = "Rollout"

\* the pod template of listed ReplicaSet i has a non-empty checksum/config annotation
HasChecksum(i) ==
    /\ "checksum/config" \in DOMAIN rsItems[i].TemplateAnnotations
    /\ rsItems[i].TemplateAnnotations["checksum/config"] # ""

ChecksumOf(i) == rsItems[i].TemplateAnnotations["checksum/config"]

\* no other listed ReplicaSet carries the checksum of ReplicaSet i
SoleCarrier(i) ==
    \A j \in RsIdx \ {i} : HasChecksum(j) => ChecksumOf(j) # ChecksumOf(i)

ResolvedSet == DOMAIN resolved.checksums

C18_RolloutOwnedOnly ==
    (Resolved /\ ~rsListFails) =>
        \A i \in RsIdx :
            HasChecksum(i) =>
                /\ HasRolloutOwner(i) => ChecksumOf(i) \in ResolvedSet
                /\ (~HasRolloutOwner(i) /\ SoleCarrier(i)) => ChecksumOf(i) \notin ResolvedSet

\* a ReplicaSet without owner, one owned by a Deployment and one owned by a Rollout
\* of another name, each with a checksum of its own
C18_Witness ==
    /\ Resolved /\ ~rsListFails
    /\ \E i, j, k \in RsIdx :
          /\ HasChecksum(i) /\ HasChecksum(j) /\ HasChecksum(k)
          /\ rsItems[i].OwnerReferences = <<>>
          /\ rsItems[j].OwnerReferences # <<>> /\ ~HasRolloutOwner(j)
          /\ HasRolloutOwner(k) /\ rsItems[k].OwnerReferences[1].Name # "app"
          /\ ChecksumOf(i) \notin ResolvedSet
          /\ ChecksumOf(j) \notin ResolvedSet
          /\ ChecksumOf(k) \in ResolvedSet

\* C19: for a ReplicaSet whose pod template has no checksum/config annotation, or an
\* empty one, ExtractChecksum returns ("", false); Resolve returns no error because
\* of it, the resolved set never holds the empty string, and a namespace whose
\* Rollout-owned ReplicaSets are all of that kind resolves to the empty set.
C19_NoChecksumSkipped ==
    Resolved =>
        /\ \A i \in RsIdx :
              ~HasChecksum(i) => ExtractChecksum(rsItems[i]) = [checksum |-> "", ok |-> FALSE]
        /\ ~rsListFails =>
              /\ ~resolved.err
              /\ "" \notin ResolvedSet
              /\ (\A i \in RsIdx : HasRolloutOwner(i) => ~HasChecksum(i)) => ResolvedSet = {}

\* Rollout-owned ReplicaSets without the annotation and with an empty one, next to
\* one with a checksum
C19_Witness ==
    /\ Resolved /\ ~rsListFails
    /\ \E i, j, k \in RsIdx :
          /\ HasRolloutOwner(i) /\ HasRolloutOwner(j) /\ HasRolloutOwner(k)
          /\ "checksum/config" \notin DOMAIN rsItems[i].TemplateAnnotations
          /\ "checksum/config" \in DOMAIN rsItems[j].TemplateAnnotations
          /\ rsItems[j].TemplateAnnotations["checksum/config"] = ""
          /\ HasChecksum(k)
    /\ Cardinality(ResolvedSet) = 1

\* C20: Resolve returns an error exactly when the list operation fails, and then a
\* nil map; when the list operation succeeds it returns a map and no error.
C20_ErrorIffListFails ==
    Resolved =>
        /\ resolved.err <=> rsListFails
        /\ resolved.err => (resolved.isNil /\ ResolvedSet = {})
        /\ ~rsListFails => ~resolved.isNil

\* the listing of a namespace that holds a Rollout-owned ReplicaSet with a checksum
\* has failed
C20_Witness ==
    /\ Resolved
    /\ rsListFails
    /\ resolved.err
    /\ \E i \in RsIdx : HasRolloutOwner(i) /\ HasChecksum(i)

---------------------------------------------------------------------------
(* Properties of the namespace cycles *)

Trace(i) == gr[i].trace

\* the positions of goroutine i's trace that hold a call or return of that name
At(i, op) == {p \in DOMAIN Trace(i) : Trace(i)[p].op = op}

\* q is where the runForRollout call that made the call at p returned
ReturnOf(i, p, q) ==
    /\ q \in At(i, "runForRollout")
    /\ q > p
    /\ \A m \in At(i, "runForRollout") : m > p => m >= q

\* runForNamespace has returned in goroutine i, and with failure
CycleEnded(i) == At(i, "runForNamespace") # {}

CycleFailed(i) == \E p \in At(i, "runForNamespace") : ~Trace(i)[p].ok

\* C21: with DryRun false, between a non-empty delete list from the planner and the
\* return of runForRollout lie exactly the DeleteConfigMap calls for the names of
\* the list, one each and in order, whichever of them fail; and runForRollout then
\* returns failure exactly when one of those calls failed.
C21_EveryNameAttemptedOnce ==
    ~cfg.DryRun =>
        \A i \in DOMAIN gr : \A p \in At(i, "Plan") : \A q \in DOMAIN Trace(i) :
            (Trace(i)[p].names # <<>> /\ ReturnOf(i, p, q)) =>
                LET names == Trace(i)[p].names
                IN /\ q = p + Len(names) + 1
                   /\ \A k \in 1..Len(names) :
                         /\ Trace(i)[p + k].op = "DeleteConfigMap"
                         /\ Trace(i)[p + k].arg = names[k]
                   /\ Trace(i)[q].ok <=> \A k \in 1..Len(names) : Trace(i)[p + k].ok

\* a group has returned failure after a failed deletion that was followed by a
\* successful one
C21_Witness ==
    /\ ~cfg.DryRun
    /\ \E i \in DOMAIN gr : \E p \in At(i, "Plan") : \E q \in DOMAIN Trace(i) :
          /\ ReturnOf(i, p, q)
          /\ Len(Trace(i)[p].names) >= 2
          /\ ~Trace(i)[p + 1].ok
          /\ Trace(i)[p + 2].ok
          /\ ~Trace(i)[q].ok

\* C22: no exit code is set before the exit decision; the decision is taken when
\* every namespace goroutine has finished, and the code is 2 exactly when at
\* least one runForNamespace returned failure (0 otherwise).
C22_ExitAfterAllOrOfFailures ==
    /\ mainPc # "exited" => exitCode = -1
    /\ mainPc = "exited" =>
          /\ \A i \in DOMAIN gr : gr[i].pc = "done"
          /\ exitCode \in {0, 2}
          /\ exitCode = 2 <=> \E i \in DOMAIN gr : CycleFailed(i)

\* the process has exited with code 2 after one namespace cycle failed and another
\* succeeded
C22_Witness ==
    /\ mainPc = "exited"
    /\ exitCode = 2
    /\ \E i, j \in DOMAIN gr : CycleFailed(i) /\ CycleEnded(j) /\ ~CycleFailed(j)

\* the goroutine's namespace is configured once
NamespaceOnce(i) == \A j \in DOMAIN gr : gr[j].ns = gr[i].ns => j = i

\* the names goroutine i deleted with success before position p of its trace
DeletedBefore(i, p) ==
    {Trace(i)[m].arg : m \in {n \in At(i, "DeleteConfigMap") : n < p /\ Trace(i)[n].ok}}

\* what the planner returns for the group of that prefix on the namespace as the
\* cycle of goroutine i alone has left it before position p
OwnDeleteList(i, p, prefix) ==
    LET listed == SelectSeq(ClusterConfigMaps(gr[i].ns),
                            LAMBDA cm : /\ cm.Name \notin DeletedBefore(i, p)
                                        /\ HasPrefix(cm.Name, prefix))
    IN Plan(BuildCandidates(listed), BuildInUse(listed, Resolve(gr[i].ns)),
            cfg.KeepLast, cfg.KeepDays, clock)

\* C23: every namespace cycle runs to completion, whatever fails in the cycles of
\* the other namespaces, and each delete list it plans is the one its own
\* namespace calls for, untouched by what the other cycles did or failed to do.
C23_CyclesIndependent ==
    <>(\A i \in DOMAIN gr :
          /\ gr[i].pc = "done"
          /\ \A p \in At(i, "Plan") :
                NamespaceOnce(i) => Trace(i)[p].names = OwnDeleteList(i, p, Trace(i)[p].arg))

\* one namespace cycle has failed and the cycle of another namespace has planned
\* deletions after that
C23_Witness ==
    \E i, j \in DOMAIN gr :
        /\ gr[i].ns # gr[j].ns
        /\ CycleFailed(i)
        /\ gr[j].pc = "delete"
        /\ gr[i].pc = "done"

\* the names ListConfigMaps returned to the Rollout group goroutine i is working on
ListedNow(i) ==
    LET last == CHOOSE p \in At(i, "ListConfigMaps") :
                    \A q \in At(i, "ListConfigMaps") : q <= p
    IN Names(Trace(i)[last].names)

\* the name contains one of the checksums resolved for the namespace of goroutine i
CarriesResolvedChecksum(i, name) ==
    \E c \in DOMAIN gr[i].checksums : Contains(name, c)

\* C24: whatever keepLast and keepDays are, no name of a delete list contains a
\* checksum of the set resolved for the namespace, so no such name is ever the
\* argument of DeleteConfigMap.
C24_ChecksumCarrierNeverDeleted ==
    \A i \in DOMAIN gr :
        gr[i].pc \in {"act", "delete"} =>
            /\ gr[i].checksums = Resolve(gr[i].ns)
            /\ \A k \in 1..Len(gr[i].toDelete) :
                  ~CarriesResolvedChecksum(i, gr[i].toDelete[k])

\* with keepLast 0 and keepDays 0 a group is deleting, and one of the ConfigMaps
\* listed for it carries a resolved checksum
C24_Witness ==
    /\ cfg.KeepLast = 0
    /\ cfg.KeepDays = 0
    /\ \E i \in DOMAIN gr :
          /\ gr[i].pc = "delete"
          /\ \E name \in ListedNow(i) : CarriesResolvedChecksum(i, name)

\* C25: in one namespace cycle no ConfigMap name is listed for the prefixes of two
\* different Rollouts.
C25_GroupsDisjoint ==
    \A i \in DOMAIN gr : \A p, q \in At(i, "ListConfigMaps") :
        Trace(i)[p].arg # Trace(i)[q].arg =>
            Names(Trace(i)[p].names) \cap Names(Trace(i)[q].names) = {}

\* the call at position p of goroutine i's trace is the last thing its cycle did:
\* runForNamespace returns success right after it
EndsCycleInSuccess(i, p) ==
    \A q \in DOMAIN Trace(i) :
        q > p => q = p + 1 /\ Trace(i)[q].op = "runForNamespace" /\ Trace(i)[q].ok

\* a namespace without Rollouts: runForNamespace returns success at once
NoRolloutsNothingToDo ==
    \A i \in DOMAIN gr : \A p \in At(i, "ListRolloutNames") :
        (Trace(i)[p].ok /\ Trace(i)[p].names = <<>>) => EndsCycleInSuccess(i, p)

\* a prefix that matches no ConfigMap: runForRollout returns success at once
NoCandidatesNothingToDo ==
    \A i \in DOMAIN gr : \A p \in At(i, "ListConfigMaps") :
        (Trace(i)[p].ok /\ Trace(i)[p].names = <<>>) =>
            /\ p + 1 \in At(i, "runForRollout")
            /\ Trace(i)[p + 1].ok

\* a resolver result without entries: the cycle ends there in success
NoInUseEntriesNothingToDo ==
    \A i \in DOMAIN gr : \A p \in At(i, "Resolve") :
        (Trace(i)[p].ok /\ DOMAIN Trace(i)[p].names = {}) => EndsCycleInSuccess(i, p)

\* C26: after an empty list of Rollouts, an empty list of ConfigMaps for a prefix or
\* an empty resolver result, the cycle (for a prefix: the group) does nothing more,
\* deletes nothing and returns success.
C26_EmptyResultNothingToDo ==
    /\ NoRolloutsNothingToDo
    /\ NoCandidatesNothingToDo
    /\ NoInUseEntriesNothingToDo

\* the positions of goroutine i's trace where a namespace-wide call was made
NamespaceCalls(i) == At(i, "ListRolloutNames") \cup At(i, "Resolve")

\* C27: a namespace cycle lists the Rollouts once and resolves once; when either
\* call fails, runForNamespace returns failure right after it, with no call to
\* DeleteConfigMap; and every DeleteConfigMap call of a cycle comes after a
\* successful ListRolloutNames and a successful Resolve of that cycle.
C27_FailedLookupStopsCycle ==
    \A i \in DOMAIN gr :
        /\ Cardinality(At(i, "ListRolloutNames")) <= 1
        /\ Cardinality(At(i, "Resolve")) <= 1
        /\ \A p \in NamespaceCalls(i) :
              ~Trace(i)[p].ok =>
                  /\ Len(Trace(i)) = p + 1
                  /\ Trace(i)[p + 1].op = "runForNamespace"
                  /\ ~Trace(i)[p + 1].ok
                  /\ At(i, "DeleteConfigMap") = {}
        /\ \A d \in At(i, "DeleteConfigMap") :
              \E p \in At(i, "ListRolloutNames") : \E q \in At(i, "Resolve") :
                  p < q /\ q < d /\ Trace(i)[p].ok /\ Trace(i)[q].ok

\* the resolver failed in one cycle, which has ended in failure, while another
\* cycle has made a DeleteConfigMap call
C27_Witness ==
    \E i, j \in DOMAIN gr :
        /\ \E p \in At(i, "Resolve") : ~Trace(i)[p].ok
        /\ gr[i].pc = "done"
        /\ At(j, "DeleteConfigMap") # {}

\* the returns of runForRollout in goroutine i's trace, in order
RolloutReturns(i) == SelectSeq(Trace(i), LAMBDA e : e.op = "runForRollout")

\* the ListConfigMaps calls in goroutine i's trace, in order
Listings(i) == SelectSeq(Trace(i), LAMBDA e : e.op = "ListConfigMaps")

\* C28: when a cycle that discovered Rollouts and resolved the in-use set has
\* ended, runForRollout has listed the ConfigMaps of every discovered Rollout and
\* returned for it, in the order of the list, whichever of the groups failed; and
\* runForNamespace returned failure exactly when one of the groups did.
C28_GroupFailureDoesNotStopLoop ==
    \A i \in DOMAIN gr : \A p \in At(i, "ListRolloutNames") : \A q \in At(i, "Resolve") :
        (CycleEnded(i) /\ Trace(i)[p].ok /\ Trace(i)[q].ok /\ Trace(i)[p].names # <<>>) =>
            LET discovered == Trace(i)[p].names
            IN /\ [k \in DOMAIN RolloutReturns(i) |-> RolloutReturns(i)[k].arg] = discovered
               /\ [k \in DOMAIN Listings(i) |-> Listings(i)[k].arg] =
                     [k \in DOMAIN discovered |-> discovered[k] \o "-config-"]
               /\ CycleFailed(i) <=>
                     \E k \in DOMAIN RolloutReturns(i) : ~RolloutReturns(i)[k].ok

\* a cycle has ended in failure: its first group failed and a later one succeeded
C28_Witness ==
    \E i \in DOMAIN gr :
        /\ CycleFailed(i)
        /\ Len(RolloutReturns(i)) >= 2
        /\ ~RolloutReturns(i)[1].ok
        /\ RolloutReturns(i)[2].ok

\* C29: in a run no ConfigMap (namespace, name) is the argument of more than one
\* DeleteConfigMap call, and no cycle is about to delete a ConfigMap that is
\* already gone.
C29_AtMostOneDeleteCall ==
    /\ \A e \in BagToSet(deleteCalls) : CopiesIn(e, deleteCalls) <= 1
    /\ \A i \in DOMAIN gr :
          gr[i].pc = "delete" => gr[i].toDelete[gr[i].d] \in configMaps[gr[i].ns]

\* a Rollout-owned ReplicaSet now in the namespace carries a checksum that the name
\* contains
ReferencedNow(ns, name) == \E c \in DOMAIN Resolve(ns) : Contains(name, c)

\* C30: no DeleteConfigMap call deletes a ConfigMap whose checksum a Rollout-owned
\* ReplicaSet of the namespace carries when the call is made, also when ReplicaSets
\* appeared after the cycle resolved its in-use set.
C30_NoDeleteWhileReferenced ==
    [][\A i \in DOMAIN gr :
          DeleteOk(i) => ~ReferencedNow(gr[i].ns, gr[i].toDelete[gr[i].d])]_vars

=============================================================================
